---- MODULE Spec2Model ----
(***************************************************************************)
(* Weather dashboard (src/app.js): the three event handlers (city search,  *)
(* geolocation, unit toggle), the two API helpers and the render helpers,  *)
(* as a state machine over the DOM regions, lastLocation and the fetch     *)
(* chains suspended at an await.  JavaScript runs every handler to its     *)
(* next await without interruption, so one action is one such run.         *)
(*                                                                         *)
(* Text is ASCII here: the ellipsis of the source is written "...", the    *)
(* degree sign "deg", and the emoji glyphs by name.  A city name is a      *)
(* sequence of one-character strings so that trim() can be computed.       *)
(* Temperatures and wind speeds are integers in tenths of a unit.          *)
(***************************************************************************)
EXTENDS Integers, Sequences, FiniteSets, TLC

\* ------------------------------------------------------------------ bounds
\* Fetch chains (handler runs that reach an await) started in one behaviour.
MaxChains == 2

\* ---------------------------------------------------------- JS null values
null == [isNull |-> TRUE]
undefined == [isUndefined |-> TRUE]
NaN == [isNaN |-> TRUE]

\* ------------------------------------------------------- texts of the page
MsgNotFound == "City not found. Try again."
MsgFetchFailed == "Something went wrong fetching weather."
MsgGeoUnsupportedGeneric == "Permission denied or unavailable."
MsgGeoUnsupported == "Geolocation is not supported by your browser."
MsgGeoFetchFailed == "Could not fetch weather for your location."
MsgGeoDenied == "Permission denied or unavailable."
LabelLocating == "Locating..."
LabelUseMyLocation == "Use my location"
Placeholder == "-"

EmptyHtml == [kind |-> "empty"]
LookingUpHtml == [kind |-> "text", text |-> <<"Looking up location...">>]

\* ------------------------------------------------------------ String.trim
RECURSIVE trimStart(_)
trimStart(s) ==
  IF s # <<>> /\ Head(s) = " " THEN trimStart(Tail(s)) ELSE s

RECURSIVE trimEnd(_)
trimEnd(s) ==
  IF s # <<>> /\ s[Len(s)] = " " THEN trimEnd(SubSeq(s, 1, Len(s) - 1)) ELSE s

trimNone(s) == s

trim(s) == trimEnd(trimStart(s))

\* encodeURIComponent: a space becomes %20, the letters used here are kept.
encodeURIComponent(s) ==
  [i \in 1..Len(s) |-> IF s[i] = " " THEN "%20" ELSE s[i]]

\* A JS value that may be undefined is boxed: [def |-> TRUE, v |-> value] or
\* undefined.  arr[i] of a JS array, 0-based index i on a 1-based sequence.
Box(v) == [def |-> TRUE, v |-> v]

At(arr, i) == IF i + 1 \in DOMAIN arr THEN Box(arr[i + 1]) ELSE undefined

\* Math.round on a boxed value in tenths (round half up); NaN for undefined.
MathRound(b) == IF b = undefined THEN NaN ELSE Box((b.v + 5) \div 10)

MathMin(a, b) == IF a < b THEN a ELSE b

\* ------------------------------------------------------ weatherCodeToText
\* The map with the entry of one code forgotten.
KnownCodesWithout57 ==
  {0, 1, 2, 3, 45, 48, 51, 53, 55, 56, 61, 63, 65, 66, 67,
   71, 73, 75, 77, 80, 81, 82, 85, 86, 95, 96, 99}

KnownCodes ==
  {0, 1, 2, 3, 45, 48, 51, 53, 55, 56, 57, 61, 63, 65, 66, 67,
   71, 73, 75, 77, 80, 81, 82, 85, 86, 95, 96, 99}

weatherCodeMap ==
  [code \in KnownCodes |->
     CASE code = 0 -> "Clear sky"
       [] code = 1 -> "Mainly clear"
       [] code = 2 -> "Partly cloudy"
       [] code = 3 -> "Overcast"
       [] code = 45 -> "Fog"
       [] code = 48 -> "Depositing rime fog"
       [] code = 51 -> "Light drizzle"
       [] code = 53 -> "Moderate drizzle"
       [] code = 55 -> "Dense drizzle"
       [] code = 56 -> "Freezing drizzle"
       [] code = 57 -> "Freezing drizzle (dense)"
       [] code = 61 -> "Slight rain"
       [] code = 63 -> "Moderate rain"
       [] code = 65 -> "Heavy rain"
       [] code = 66 -> "Freezing rain (light)"
       [] code = 67 -> "Freezing rain (heavy)"
       [] code = 71 -> "Slight snow"
       [] code = 73 -> "Moderate snow"
       [] code = 75 -> "Heavy snow"
       [] code = 77 -> "Snow grains"
       [] code = 80 -> "Rain showers (slight)"
       [] code = 81 -> "Rain showers (moderate)"
       [] code = 82 -> "Rain showers (violent)"
       [] code = 85 -> "Snow showers (slight)"
       [] code = 86 -> "Snow showers (heavy)"
       [] code = 95 -> "Thunderstorm"
       [] code = 96 -> "Thunderstorm with slight hail"
       [] code = 99 -> "Thunderstorm with heavy hail"]

weatherCodeToText(code) ==
  IF code \in DOMAIN weatherCodeMap THEN weatherCodeMap[code] ELSE Placeholder

\* ------------------------------------------------------------ makeIconImg
\* makeIconImg with isDay ignored for the clear sky.
makeIconImgIgnoresIsDay(code, isDay) ==
  IF code \in {0} THEN "sun"
  ELSE IF code \in {1, 2} THEN "sun-behind-cloud"
  ELSE IF code \in {3} THEN "cloud"
  ELSE IF code \in {45, 48} THEN "fog"
  ELSE IF code \in {51, 53, 55} THEN "sun-behind-rain-cloud"
  ELSE IF code \in {61, 63, 65, 80, 81, 82} THEN "rain-cloud"
  ELSE IF code \in {66, 67} THEN "rain-cloud+snowflake"
  ELSE IF code \in {71, 73, 75, 77, 85, 86} THEN "snowflake"
  ELSE IF code \in {95, 96, 99} THEN "thunder-cloud"
  ELSE "thermometer"

makeIconImg(code, isDay) ==
  IF code \in {0} THEN (IF isDay THEN "sun" ELSE "moon")
  ELSE IF code \in {1, 2} THEN "sun-behind-cloud"
  ELSE IF code \in {3} THEN "cloud"
  ELSE IF code \in {45, 48} THEN "fog"
  ELSE IF code \in {51, 53, 55} THEN "sun-behind-rain-cloud"
  ELSE IF code \in {61, 63, 65, 80, 81, 82} THEN "rain-cloud"
  ELSE IF code \in {66, 67} THEN "rain-cloud+snowflake"
  ELSE IF code \in {71, 73, 75, 77, 85, 86} THEN "snowflake"
  ELSE IF code \in {95, 96, 99} THEN "thunder-cloud"
  ELSE "thermometer"

\* ------------------------------------------------------------ the servers
\* What the geocoding service knows; any request may also fail or find nothing.
Paris == [id |-> 1, name |-> "Paris", country |-> "France",
          latitude |-> 4886, longitude |-> 235]
Oslo == [id |-> 2, name |-> "Oslo", country |-> "Norway",
         latitude |-> 5991, longitude |-> 1075]

GeoDB(name) ==
  IF name = <<"P">> THEN <<Paris>>
  ELSE IF name = <<"O">> THEN <<Oslo>>
  ELSE <<>>

\* Values the user can have typed into the city input at a submit.
CityInputs == {<<>>, <<" ", " ">>, <<"P">>, <<" ", "O", " ">>}

\* Outcomes of fetch(url) for a geocoding request: rejected (transport
\* error), a non-success status, or a JSON body with absent, empty or
\* one-element results.
GeocodeResponses(req) ==
  {[rejected |-> TRUE, ok |-> FALSE, json |-> undefined],
   [rejected |-> FALSE, ok |-> FALSE, json |-> undefined],
   [rejected |-> FALSE, ok |-> TRUE, json |-> [hasResults |-> FALSE, results |-> <<>>]],
   [rejected |-> FALSE, ok |-> TRUE, json |-> [hasResults |-> TRUE, results |-> <<>>]]}
  \cup
  {[rejected |-> FALSE, ok |-> TRUE, json |-> [hasResults |-> TRUE, results |-> GeoDB(req.name)]] :
     x \in {y \in {1} : GeoDB(req.name) # <<>>}}

\* Celsius tenths to the unit of the request.
InUnit(c, unit) == IF unit = "fahrenheit" THEN (c * 9) \div 5 + 320 ELSE c

DailyLen == 7

\* The forecast service's body for a request; the temperatures are baked in
\* the requested unit, the wind speed is always mph.
WeatherJson(req, shape) ==
  LET base == IF req.latitude = Paris.latitude THEN 184
              ELSE IF req.latitude = Oslo.latitude THEN -35 ELSE 300
      code == IF req.latitude = Paris.latitude THEN 2
              ELSE IF req.latitude = Oslo.latitude THEN 71 ELSE 0
      day == IF req.latitude = Paris.latitude THEN 1 ELSE 0
  IN [latitude |-> req.latitude, longitude |-> req.longitude,
      temperature_unit |-> req.temperature_unit,
      current_weather |->
        IF shape = "noCurrent" THEN undefined
        ELSE [temperature |-> InUnit(base, req.temperature_unit),
              windspeed |-> 120, weathercode |-> code, is_day |-> day,
              time |-> "t0"],
      daily |->
        IF shape = "noDaily" THEN undefined
        ELSE [time |-> [i \in 1..DailyLen |-> i - 1],
              temperature_2m_max |->
                [i \in 1..DailyLen |-> InUnit(base + 10 * i, req.temperature_unit)],
              temperature_2m_min |->
                [i \in 1..DailyLen |-> InUnit(base - 10 * i, req.temperature_unit)],
              weathercode |-> [i \in 1..DailyLen |-> IF i % 2 = 0 THEN code ELSE 3],
              precipitation_probability_max |->
                IF shape = "noPrecip" THEN <<>>
                ELSE [i \in 1..DailyLen |-> 10 * i]]]

WeatherShapes == {"full", "noCurrent", "noDaily"}

WeatherResponses(req) ==
  {[rejected |-> TRUE, ok |-> FALSE, json |-> undefined],
   [rejected |-> FALSE, ok |-> FALSE, json |-> undefined]}
  \cup
  {[rejected |-> FALSE, ok |-> TRUE, json |-> WeatherJson(req, shape)] :
     shape \in WeatherShapes}

\* Positions and errors the platform geolocation can report.
Positions == {[latitude |-> 1000, longitude |-> 2000]}
PositionErrors == {[message |-> "User denied Geolocation"], [message |-> ""]}

\* -------------------------------------------------------------- api helpers
Throw == [thrown |-> TRUE, value |-> undefined]
Return(v) == [thrown |-> FALSE, value |-> v]

\* geocodeCity without the empty-results check: results[0] is undefined and
\* reading r.name throws.
geocodeCityNoEmptyCheck(res) ==
  IF res.rejected THEN Throw
  ELSE IF ~res.ok THEN Throw
  ELSE IF Len(res.json.results) = 0 THEN Throw
  ELSE LET r == res.json.results[1]
       IN Return([name |-> r.name, country |-> r.country,
                  latitude |-> r.latitude, longitude |-> r.longitude])

\* geocodeCity from the point where fetch(url) settles with res.
geocodeCity(res) ==
  IF res.rejected THEN Throw
  ELSE IF ~res.ok THEN Throw
  ELSE IF ~res.json.hasResults \/ Len(res.json.results) = 0 THEN Return(null)
  ELSE LET r == res.json.results[1]
       IN Return([name |-> r.name, country |-> r.country,
                  latitude |-> r.latitude, longitude |-> r.longitude])

\* The request fetchWeather sends.
WeatherRequest(chain, lat, lon, tempUnit) ==
  [chain |-> chain, kind |-> "weather", latitude |-> lat, longitude |-> lon,
   temperature_unit |-> tempUnit, windspeed_unit |-> "mph"]

\* fetchWeather from the point where fetch(url) settles with res.
fetchWeather(res) ==
  IF res.rejected THEN Throw
  ELSE IF ~res.ok THEN Throw
  ELSE Return(res.json)

unitParamSwapped(useF) == IF useF THEN "celsius" ELSE "fahrenheit"

unitParam(useF) == IF useF THEN "fahrenheit" ELSE "celsius"

\* ----------------------------------------------------------- render helpers
unitSuffix(useF) == IF useF THEN "degF" ELSE "degC"

\* `${loc.name}${loc.country ? ', ' + loc.country : ''}`
placeText(loc) ==
  <<loc.name>> \o (IF loc.country # "" THEN <<", ", loc.country>> ELSE <<>>)

\* Which response a panel was built from (not shown; kept to trace a panel
\* to the request that produced its numbers).
Origin(data) ==
  [latitude |-> data.latitude, longitude |-> data.longitude,
   temperature_unit |-> data.temperature_unit]

\* renderCurrent: throws at the read of c.weathercode, before it touches
\* currentEl, when the body has no current_weather; else the new currentEl.
renderCurrent(loc, data, useF) ==
  LET unit == unitSuffix(useF)
      c == data.current_weather
  IN IF c = undefined THEN Throw
     ELSE Return([kind |-> "current",
                  heading |-> placeText(loc),
                  temp |-> MathRound(Box(c.temperature)),
                  unit |-> unit,
                  desc |-> weatherCodeToText(c.weathercode),
                  icon |-> makeIconImg(c.weathercode, c.is_day = 1),
                  wind |-> MathRound(Box(c.windspeed)),
                  updated |-> c.time,
                  origin |-> Origin(data)])

\* One day-card of renderForecast, built from index i of every sequence.
dayCard(d, i, unit) ==
  LET code == At(d.weathercode, i)
  IN [index |-> i,
      date |-> At(d.time, i),
      hi |-> MathRound(At(d.temperature_2m_max, i)),
      lo |-> MathRound(At(d.temperature_2m_min, i)),
      unit |-> unit,
      desc |-> IF code = undefined THEN Placeholder ELSE weatherCodeToText(code.v),
      icon |-> IF code = undefined THEN "thermometer" ELSE makeIconImg(code.v, TRUE),
      precip |-> At(d.precipitation_probability_max, i)]

\* renderForecast with the loop bound one too far (i <= Math.min(5, n)).
renderForecastOneMore(data, useF) ==
  LET d == data.daily
      unit == unitSuffix(useF)
  IN IF d = undefined
     THEN [thrown |-> TRUE, value |-> [kind |-> "forecast", cards |-> <<>>]]
     ELSE Return([kind |-> "forecast",
                  cards |-> [k \in 1..(MathMin(5, Len(d.time)) + 1) |->
                               dayCard(d, k - 1, unit)],
                  origin |-> Origin(data)])

\* renderForecast: writes the heading and the empty grid first, so a body
\* with no daily throws (at d.time) with that already in forecastEl.
renderForecast(data, useF) ==
  LET d == data.daily
      unit == unitSuffix(useF)
  IN IF d = undefined
     THEN [thrown |-> TRUE, value |-> [kind |-> "forecast", cards |-> <<>>]]
     ELSE Return([kind |-> "forecast",
                  cards |-> [k \in 1..MathMin(5, Len(d.time)) |-> dayCard(d, k - 1, unit)],
                  origin |-> Origin(data)])

\* -------------------------------------------------------------------- state
VARIABLES
  navigatorGeolocation,  \* whether navigator.geolocation is there
  unitToggle,            \* unitToggle.checked
  lastLocation,          \* null or a Location
  currentEl,             \* currentEl.innerHTML
  forecastEl,            \* forecastEl.innerHTML
  errorEl,               \* errorEl.textContent
  geoBtn,                \* [disabled, textContent] of the button
  chains,                \* chains[id]: the handler run id, its locals and position
  pending,               \* requests sent and not yet answered
  event,                 \* the event or callback the browser dispatched last
  call                   \* a helper called on its own: its arguments and result

vars == <<navigatorGeolocation, unitToggle, lastLocation, currentEl,
          forecastEl, errorEl, geoBtn, chains, pending, event, call>>

dom == <<currentEl, forecastEl, errorEl>>

\* A showError that writes only a non-empty message.
showErrorIgnoresEmpty(msg) == IF msg = "" THEN errorEl ELSE msg

\* showError: msg ?? '' with msg a string at every call of the source; the
\* new errorEl.textContent.
showError(msg) == msg

\* A handler run: type is the handler, pc the await it is suspended at (or
\* "done"), loc/useF its local constants once assigned, reqs the requests it
\* has issued, result how it ended.
NewChain(type, pc, req) ==
  [type |-> type, pc |-> pc, loc |-> null, useF |-> FALSE,
   reqs |-> <<req>>, result |-> "running"]

\* The runs of a handler that are suspended at a given await.
Suspended(type, pc) ==
  {id \in DOMAIN chains : chains[id].type = type /\ chains[id].pc = pc}

\* The request a run issued last, the one it is awaiting when suspended.
LastReq(id) == chains[id].reqs[Len(chains[id].reqs)]

InFlight == {id \in DOMAIN chains : chains[id].pc # "done"}

Init ==
  /\ navigatorGeolocation \in BOOLEAN
  /\ unitToggle = FALSE
  /\ lastLocation = null
  /\ currentEl = EmptyHtml
  /\ forecastEl = EmptyHtml
  /\ errorEl = ""
  /\ geoBtn = [disabled |-> FALSE, textContent |-> LabelUseMyLocation]
  /\ chains = <<>>
  /\ pending = {}
  /\ event = [op |-> "load"]
  /\ call = [fn |-> "none"]

\* ------------------------------------------------- form submit (city search)
GeocodeRequest(id, name) ==
  [chain |-> id, kind |-> "geocode", name |-> encodeURIComponent(name), count |-> 1]

\* A submit that also fetches the weather of the stored location at once.
SubmitIssuesBoth(id, city) ==
  <<WeatherRequest(id, IF lastLocation = null THEN 0 ELSE lastLocation.latitude,
                   IF lastLocation = null THEN 0 ELSE lastLocation.longitude,
                   unitParam(unitToggle)),
    GeocodeRequest(id, city)>>

\* The requests the submit handler has issued when it first suspends: the
\* geocoding fetch of line 42 (144) and nothing else.
SubmitIssues(id, city) == <<GeocodeRequest(id, city)>>

\* Lines 30-42: up to the await of geocodeCity.
Submit(value) ==
  LET city == trim(value)
      id == Len(chains) + 1
      reqs == SubmitIssues(id, city)
  IN /\ IF city = <<>>
        THEN UNCHANGED <<dom, chains, pending>>
        ELSE /\ Len(chains) < MaxChains
             /\ errorEl' = showError("")
             /\ currentEl' = LookingUpHtml
             /\ forecastEl' = EmptyHtml
             /\ chains' = Append(chains,
                   [NewChain("search", "geocode", reqs[1]) EXCEPT !.reqs = reqs])
             /\ pending' = pending \cup {reqs[i] : i \in DOMAIN reqs}
     /\ event' = [op |-> "submit", value |-> value,
                  started |-> IF city = <<>> THEN 0 ELSE id]
     /\ UNCHANGED <<call, navigatorGeolocation, unitToggle, lastLocation, geoBtn>>

\* A catch block that only writes the error line.
SubmitCatchKeepsPanels ==
  [currentEl |-> currentEl, forecastEl |-> forecastEl,
   errorEl |-> showError("Something went wrong fetching weather."),
   result |-> "failed"]

\* The catch block of the submit handler, lines 60-65.
SubmitCatch ==
  [currentEl |-> EmptyHtml, forecastEl |-> EmptyHtml,
   errorEl |-> showError(MsgFetchFailed), result |-> "failed"]

\* Lines 42-55: geocodeCity settles; not found, or store the location and
\* await fetchWeather.
SubmitGeocoded(id, res) ==
  LET ch == chains[id]
      req == LastReq(id)
      g == geocodeCity(res)
      loc == g.value
      useF == unitToggle
      wreq == WeatherRequest(id, loc.latitude, loc.longitude, unitParam(useF))
  IN /\ ch.type = "search" /\ ch.pc = "geocode"
     /\ req \in pending
     /\ res \in GeocodeResponses(req)
     /\ IF g.thrown
        THEN /\ currentEl' = SubmitCatch.currentEl
             /\ forecastEl' = SubmitCatch.forecastEl
             /\ errorEl' = SubmitCatch.errorEl
             /\ chains' = [chains EXCEPT ![id].pc = "done", ![id].result = "failed"]
             /\ pending' = pending \ {req}
             /\ UNCHANGED lastLocation
        ELSE IF loc = null
        THEN /\ currentEl' = EmptyHtml
             /\ errorEl' = showError(MsgNotFound)
             /\ chains' = [chains EXCEPT ![id].pc = "done", ![id].result = "notfound"]
             /\ pending' = pending \ {req}
             /\ UNCHANGED <<forecastEl, lastLocation>>
        ELSE /\ lastLocation' = loc
             /\ currentEl' = [kind |-> "fetching",
                              text |-> <<loc.name, ", ", loc.country>>]
             /\ chains' = [chains EXCEPT ![id].pc = "weather", ![id].loc = loc,
                                         ![id].useF = useF,
                                         ![id].reqs = Append(@, wreq)]
             /\ pending' = (pending \ {req}) \cup {wreq}
             /\ UNCHANGED <<forecastEl, errorEl>>
     /\ event' = [op |-> "geocoded", chain |-> id, res |-> res]
     /\ UNCHANGED <<call, navigatorGeolocation, unitToggle, geoBtn>>

\* A handler that reads the toggle again when it renders.
SubmitFinishRereadsToggle(loc, useF, res) ==
  LET w == fetchWeather(res)
      rc == renderCurrent(loc, w.value, unitToggle)
      rf == renderForecast(w.value, unitToggle)
  IN IF w.thrown THEN SubmitCatch
     ELSE IF rc.thrown THEN SubmitCatch
     ELSE IF rf.thrown THEN SubmitCatch
     ELSE [currentEl |-> rc.value, forecastEl |-> rf.value,
           errorEl |-> errorEl, result |-> "rendered"]

\* A handler that drops a response once a newer location has been stored.
SubmitFinishIfCurrent(loc, useF, res) ==
  LET w == fetchWeather(res)
      rc == renderCurrent(loc, w.value, useF)
      rf == renderForecast(w.value, useF)
  IN IF w.thrown THEN SubmitCatch
     ELSE IF loc # lastLocation
     THEN [currentEl |-> currentEl, forecastEl |-> forecastEl,
           errorEl |-> errorEl, result |-> "stale"]
     ELSE IF rc.thrown THEN SubmitCatch
     ELSE IF rf.thrown THEN SubmitCatch
     ELSE [currentEl |-> rc.value, forecastEl |-> rf.value,
           errorEl |-> errorEl, result |-> "rendered"]

\* Lines 55-65 from the point where fetchWeather settles: render both panels,
\* or the catch block on a failed fetch or a throwing render.
SubmitFinish(loc, useF, res) ==
  LET w == fetchWeather(res)
      rc == renderCurrent(loc, w.value, useF)
      rf == renderForecast(w.value, useF)
  IN IF w.thrown THEN SubmitCatch
     ELSE IF rc.thrown THEN SubmitCatch
     ELSE IF rf.thrown THEN SubmitCatch
     ELSE [currentEl |-> rc.value, forecastEl |-> rf.value,
           errorEl |-> errorEl, result |-> "rendered"]

SubmitWeather(id, res) ==
  LET ch == chains[id]
      req == LastReq(id)
      fin == SubmitFinish(ch.loc, ch.useF, res)
  IN /\ ch.type = "search" /\ ch.pc = "weather"
     /\ req \in pending
     /\ res \in WeatherResponses(req)
     /\ currentEl' = fin.currentEl
     /\ forecastEl' = fin.forecastEl
     /\ errorEl' = fin.errorEl
     /\ chains' = [chains EXCEPT ![id].pc = "done", ![id].result = fin.result]
     /\ pending' = pending \ {req}
     /\ event' = [op |-> "weather", chain |-> id, res |-> res]
     /\ UNCHANGED <<call, navigatorGeolocation, unitToggle, lastLocation, geoBtn>>

\* ---------------------------------------------------- geoBtn click handler
PositionRequest(id) ==
  [chain |-> id, kind |-> "position", enableHighAccuracy |-> TRUE, timeout |-> 10000]

\* Lines 75-84 and 108: the capability guard, then the button is disabled and
\* the platform asked for the position.  A disabled button gets no click.
GeoClick ==
  LET id == Len(chains) + 1
      req == PositionRequest(id)
  IN /\ ~geoBtn.disabled
     /\ IF ~navigatorGeolocation
        THEN /\ errorEl' = showError(MsgGeoUnsupported)
             /\ UNCHANGED <<geoBtn, chains, pending>>
        ELSE /\ Len(chains) < MaxChains
             /\ errorEl' = showError("")
             /\ geoBtn' = [disabled |-> TRUE, textContent |-> LabelLocating]
             /\ chains' = Append(chains, NewChain("geo", "position", req))
             /\ pending' = pending \cup {req}
     /\ event' = [op |-> "geoClick",
                  started |-> IF navigatorGeolocation THEN id ELSE 0]
     /\ UNCHANGED <<call, navigatorGeolocation, unitToggle, lastLocation,
                    currentEl, forecastEl>>

\* Lines 84-89: the success callback up to the await of fetchWeather.  The
\* Location of line 91 is built from these coordinates only.
GeoPosition(id, pos) ==
  LET req == LastReq(id)
      useF == unitToggle
      loc == [name |-> "Your location", country |-> "",
              latitude |-> pos.latitude, longitude |-> pos.longitude]
      wreq == WeatherRequest(id, pos.latitude, pos.longitude, unitParam(useF))
  IN /\ id \in Suspended("geo", "position")
     /\ req \in pending
     /\ chains' = [chains EXCEPT ![id].pc = "weather", ![id].loc = loc,
                                 ![id].useF = useF, ![id].reqs = Append(@, wreq)]
     /\ pending' = (pending \ {req}) \cup {wreq}
     /\ event' = [op |-> "position", chain |-> id]
     /\ UNCHANGED <<call, navigatorGeolocation, unitToggle, lastLocation, dom, geoBtn>>

\* Lines 103-108: the error callback (denied, unavailable, timeout).
GeoPositionError(id, err) ==
  LET req == LastReq(id)
  IN /\ id \in Suspended("geo", "position")
     /\ req \in pending
     /\ errorEl' = showError(IF err.message # "" THEN err.message ELSE MsgGeoDenied)
     /\ geoBtn' = [disabled |-> FALSE, textContent |-> LabelUseMyLocation]
     /\ chains' = [chains EXCEPT ![id].pc = "done", ![id].result = "denied"]
     /\ pending' = pending \ {req}
     /\ event' = [op |-> "positionError", chain |-> id]
     /\ UNCHANGED <<call, navigatorGeolocation, unitToggle, lastLocation,
                    currentEl, forecastEl>>

\* The success callback with the location stored before the fetch settles.
GeoFinishStoresFirst(loc, useF, res) ==
  LET w == fetchWeather(res)
      rc == renderCurrent(loc, w.value, useF)
      rf == renderForecast(w.value, useF)
      restored == [disabled |-> FALSE, textContent |-> LabelUseMyLocation]
  IN IF w.thrown
     THEN [lastLocation |-> loc, currentEl |-> currentEl,
           forecastEl |-> forecastEl, errorEl |-> showError(MsgGeoFetchFailed),
           geoBtn |-> restored, result |-> "failed"]
     ELSE IF rc.thrown
     THEN [lastLocation |-> loc, currentEl |-> currentEl,
           forecastEl |-> forecastEl, errorEl |-> showError(MsgGeoFetchFailed),
           geoBtn |-> restored, result |-> "failed"]
     ELSE IF rf.thrown
     THEN [lastLocation |-> loc, currentEl |-> rc.value,
           forecastEl |-> rf.value, errorEl |-> showError(MsgGeoFetchFailed),
           geoBtn |-> restored, result |-> "failed"]
     ELSE [lastLocation |-> loc, currentEl |-> rc.value,
           forecastEl |-> rf.value, errorEl |-> errorEl,
           geoBtn |-> restored, result |-> "rendered"]

\* The success callback with the button restored on the success path only.
GeoFinishNoFinally(loc, useF, res) ==
  LET w == fetchWeather(res)
      rc == renderCurrent(loc, w.value, useF)
      rf == renderForecast(w.value, useF)
      restored == [disabled |-> FALSE, textContent |-> LabelUseMyLocation]
  IN IF w.thrown
     THEN [lastLocation |-> lastLocation, currentEl |-> currentEl,
           forecastEl |-> forecastEl, errorEl |-> showError(MsgGeoFetchFailed),
           geoBtn |-> geoBtn, result |-> "failed"]
     ELSE IF rc.thrown
     THEN [lastLocation |-> loc, currentEl |-> currentEl,
           forecastEl |-> forecastEl, errorEl |-> showError(MsgGeoFetchFailed),
           geoBtn |-> geoBtn, result |-> "failed"]
     ELSE IF rf.thrown
     THEN [lastLocation |-> loc, currentEl |-> rc.value,
           forecastEl |-> rf.value, errorEl |-> showError(MsgGeoFetchFailed),
           geoBtn |-> geoBtn, result |-> "failed"]
     ELSE [lastLocation |-> loc, currentEl |-> rc.value,
           forecastEl |-> rf.value, errorEl |-> errorEl,
           geoBtn |-> restored, result |-> "rendered"]

\* Lines 89-102 from the point where fetchWeather settles.  The catch block
\* only writes the error line, so what the try block wrote before it threw
\* stays; the finally block restores the button on every path.
GeoFinish(loc, useF, res) ==
  LET w == fetchWeather(res)
      rc == renderCurrent(loc, w.value, useF)
      rf == renderForecast(w.value, useF)
      restored == [disabled |-> FALSE, textContent |-> LabelUseMyLocation]
  IN IF w.thrown
     THEN [lastLocation |-> lastLocation, currentEl |-> currentEl,
           forecastEl |-> forecastEl, errorEl |-> showError(MsgGeoFetchFailed),
           geoBtn |-> restored, result |-> "failed"]
     ELSE IF rc.thrown
     THEN [lastLocation |-> loc, currentEl |-> currentEl,
           forecastEl |-> forecastEl, errorEl |-> showError(MsgGeoFetchFailed),
           geoBtn |-> restored, result |-> "failed"]
     ELSE IF rf.thrown
     THEN [lastLocation |-> loc, currentEl |-> rc.value,
           forecastEl |-> rf.value, errorEl |-> showError(MsgGeoFetchFailed),
           geoBtn |-> restored, result |-> "failed"]
     ELSE [lastLocation |-> loc, currentEl |-> rc.value,
           forecastEl |-> rf.value, errorEl |-> errorEl,
           geoBtn |-> restored, result |-> "rendered"]

GeoWeather(id, res) ==
  LET ch == chains[id]
      req == LastReq(id)
      fin == GeoFinish(ch.loc, ch.useF, res)
  IN /\ id \in Suspended("geo", "weather")
     /\ req \in pending
     /\ res \in WeatherResponses(req)
     /\ lastLocation' = fin.lastLocation
     /\ currentEl' = fin.currentEl
     /\ forecastEl' = fin.forecastEl
     /\ errorEl' = fin.errorEl
     /\ geoBtn' = fin.geoBtn
     /\ chains' = [chains EXCEPT ![id].pc = "done", ![id].result = fin.result]
     /\ pending' = pending \ {req}
     /\ event' = [op |-> "weather", chain |-> id, res |-> res]
     /\ UNCHANGED <<call, navigatorGeolocation, unitToggle>>

\* ------------------------------------------------ unitToggle change handler
\* A catch block that only writes the error line.
ToggleCatchKeepsPanels ==
  [currentEl |-> currentEl, forecastEl |-> forecastEl,
   errorEl |-> showError(MsgFetchFailed), result |-> "failed"]

\* The catch block of the change handler, lines 128-133.
ToggleCatch ==
  [currentEl |-> EmptyHtml, forecastEl |-> EmptyHtml,
   errorEl |-> showError(MsgFetchFailed), result |-> "failed"]

toggleGuardNone(ll) == TRUE

\* Line 116: the handler goes on only with a stored location.
toggleGuard(ll) == ll # null

\* Lines 115-124: the browser has flipped the checkbox; the guard, then the
\* placeholder and the await of fetchWeather.  Reading lastLocation.name of
\* null at line 119 is a TypeError inside the try block.
ToggleChange ==
  LET id == Len(chains) + 1
      useF == ~unitToggle
      ll == lastLocation
      wreq == WeatherRequest(id, ll.latitude, ll.longitude, unitParam(useF))
  IN /\ unitToggle' = ~unitToggle
     /\ IF ~toggleGuard(ll)
        THEN UNCHANGED <<dom, chains, pending>>
        ELSE IF ll = null
        THEN /\ currentEl' = ToggleCatch.currentEl
             /\ forecastEl' = ToggleCatch.forecastEl
             /\ errorEl' = ToggleCatch.errorEl
             /\ UNCHANGED <<chains, pending>>
        ELSE /\ Len(chains) < MaxChains
             /\ errorEl' = showError("")
             /\ currentEl' = [kind |-> "fetching", text |-> placeText(ll)]
             /\ forecastEl' = EmptyHtml
             /\ chains' = Append(chains,
                   [NewChain("toggle", "weather", wreq) EXCEPT !.useF = useF])
             /\ pending' = pending \cup {wreq}
     /\ event' = [op |-> "toggle", started |-> IF ll = null THEN 0 ELSE id]
     /\ UNCHANGED <<call, navigatorGeolocation, lastLocation, geoBtn>>

\* Lines 124-133 from the point where fetchWeather settles; renderCurrent is
\* given lastLocation as it is then.
ToggleFinish(useF, res) ==
  LET w == fetchWeather(res)
      rc == renderCurrent(lastLocation, w.value, useF)
      rf == renderForecast(w.value, useF)
  IN IF w.thrown THEN ToggleCatch
     ELSE IF rc.thrown THEN ToggleCatch
     ELSE IF rf.thrown THEN ToggleCatch
     ELSE [currentEl |-> rc.value, forecastEl |-> rf.value,
           errorEl |-> errorEl, result |-> "rendered"]

ToggleWeather(id, res) ==
  LET ch == chains[id]
      req == LastReq(id)
      fin == ToggleFinish(ch.useF, res)
  IN /\ id \in Suspended("toggle", "weather")
     /\ req \in pending
     /\ res \in WeatherResponses(req)
     /\ currentEl' = fin.currentEl
     /\ forecastEl' = fin.forecastEl
     /\ errorEl' = fin.errorEl
     /\ chains' = [chains EXCEPT ![id].pc = "done", ![id].result = fin.result]
     /\ pending' = pending \ {req}
     /\ event' = [op |-> "weather", chain |-> id, res |-> res]
     /\ UNCHANGED <<call, navigatorGeolocation, unitToggle, lastLocation, geoBtn>>

Next ==
  \/ \E value \in CityInputs : Submit(value)
  \/ \E id \in Suspended("search", "geocode") :
       \E res \in GeocodeResponses(LastReq(id)) : SubmitGeocoded(id, res)
  \/ \E id \in Suspended("search", "weather") :
       \E res \in WeatherResponses(LastReq(id)) : SubmitWeather(id, res)
  \/ GeoClick
  \/ \E id \in Suspended("geo", "position") :
       \E pos \in Positions : GeoPosition(id, pos)
  \/ \E id \in Suspended("geo", "position") :
       \E err \in PositionErrors : GeoPositionError(id, err)
  \/ \E id \in Suspended("geo", "weather") :
       \E res \in WeatherResponses(LastReq(id)) : GeoWeather(id, res)
  \/ ToggleChange
  \/ \E id \in Suspended("toggle", "weather") :
       \E res \in WeatherResponses(LastReq(id)) : ToggleWeather(id, res)

Spec == Init /\ [][Next]_vars

\* The platform calls one of the two geolocation callbacks, and a weather
\* request of the geolocation flow is answered.
GeoCallback ==
  \E id \in Suspended("geo", "position") :
    \/ \E pos \in Positions : GeoPosition(id, pos)
    \/ \E err \in PositionErrors : GeoPositionError(id, err)

GeoResponds ==
  \E id \in Suspended("geo", "weather") :
    \E res \in WeatherResponses(LastReq(id)) : GeoWeather(id, res)

FairSpec == Spec /\ WF_vars(GeoCallback) /\ WF_vars(GeoResponds)

\* ------------------------------------------------------------------ claims
IsBlank(value) == \A i \in 1..Len(value) : value[i] = " "

Restored == [disabled |-> FALSE, textContent |-> "Use my location"]

\* A response that fails: transport error or non-success status.
Failed(res) == res.rejected \/ ~res.ok

\* A weather response both render helpers accept.
Renderable(res) ==
  /\ ~Failed(res)
  /\ res.json.current_weather # undefined
  /\ res.json.daily # undefined

Kinds(reqs) == {reqs[i].kind : i \in DOMAIN reqs}

RequestOrigin(req) ==
  [latitude |-> req.latitude, longitude |-> req.longitude,
   temperature_unit |-> req.temperature_unit]

\* C1: a submit with an empty or whitespace-only city input issues no request
\* and leaves the error line, both display areas and lastLocation unchanged.
C1_BlankSubmitIsNoOp ==
  [][(event'.op = "submit" /\ IsBlank(event'.value)) =>
       UNCHANGED <<errorEl, currentEl, forecastEl, lastLocation, chains, pending>>]_vars

C1_Witness ==
  /\ event.op = "submit"
  /\ event.value = <<" ", " ">>
  /\ currentEl.kind = "current"
  /\ lastLocation # null

\* C2: a geocode response with a success status and zero or absent results
\* ends the search with the current area empty, the error line exactly
\* "City not found. Try again.", and no weather request from that search.
C2_NotFound ==
  (/\ event.op = "geocoded"
   /\ ~Failed(event.res)
   /\ (~event.res.json.hasResults \/ Len(event.res.json.results) = 0))
  => /\ currentEl = [kind |-> "empty"]
     /\ errorEl = "City not found. Try again."
     /\ chains[event.chain].pc = "done"
     /\ "weather" \notin Kinds(chains[event.chain].reqs)
     /\ \A r \in pending : r.chain # event.chain

C2_Witness ==
  /\ event.op = "geocoded"
  /\ ~Failed(event.res)
  /\ event.res.json.hasResults
  /\ Len(event.res.json.results) = 0
  /\ chains[event.chain].result = "notfound"

\* C3: a unit-toggle change while lastLocation is null issues no request and
\* leaves the error line, both display areas and lastLocation unchanged.
C3_ToggleWithoutLocationIsNoOp ==
  [][(event'.op = "toggle" /\ lastLocation = null) =>
       UNCHANGED <<errorEl, currentEl, forecastEl, lastLocation, chains, pending>>]_vars

C3_Witness ==
  /\ event.op = "toggle"
  /\ lastLocation = null
  /\ errorEl # ""
  /\ unitToggle

\* C4: with a location stored and nothing in flight, a unit-toggle change
\* issues exactly one weather request, for the stored coordinates and the
\* toggle's new unit, and no geocode request; when that request succeeds and
\* nothing else is in flight, both panels are rendered from its response with
\* the suffix of the unit that was requested.
C4_ToggleIssues ==
  (event'.op = "toggle" /\ lastLocation # null /\ InFlight = {}) =>
    LET id == Len(chains) + 1
        wreq == [chain |-> id, kind |-> "weather",
                 latitude |-> lastLocation.latitude,
                 longitude |-> lastLocation.longitude,
                 temperature_unit |-> IF unitToggle' THEN "fahrenheit" ELSE "celsius",
                 windspeed_unit |-> "mph"]
    IN /\ unitToggle' = ~unitToggle
       /\ Len(chains') = id
       /\ chains'[id].reqs = <<wreq>>
       /\ pending' = pending \cup {wreq}

C4_ToggleRenders ==
  (/\ event'.op = "weather"
   /\ chains[event'.chain].type = "toggle"
   /\ InFlight = {event'.chain}
   /\ Renderable(event'.res)) =>
    LET suffix == IF LastReq(event'.chain).temperature_unit = "fahrenheit"
                  THEN "degF" ELSE "degC"
    IN /\ currentEl'.kind = "current"
       /\ currentEl'.unit = suffix
       /\ currentEl'.origin = RequestOrigin(LastReq(event'.chain))
       /\ forecastEl'.kind = "forecast"
       /\ forecastEl'.cards # <<>>
       /\ \A k \in DOMAIN forecastEl'.cards : forecastEl'.cards[k].unit = suffix

C4_ToggleRefetches == [][C4_ToggleIssues /\ C4_ToggleRenders]_vars

C4_Witness ==
  /\ event.op = "weather"
  /\ Len(chains) = 2
  /\ event.chain = 2
  /\ chains[1].type = "search" /\ chains[1].result = "rendered"
  /\ chains[2].type = "toggle" /\ chains[2].result = "rendered"
  /\ currentEl.kind = "current" /\ currentEl.unit = "degF"
  /\ forecastEl.kind = "forecast"

\* C5: when the weather request of a city search or of a unit toggle fails
\* (transport error or non-success status), the handler ends with both
\* areas empty and the generic fetch-failure message on the error line.
C5_WeatherFailureClears ==
  (/\ event.op = "weather"
   /\ chains[event.chain].type \in {"search", "toggle"}
   /\ Failed(event.res))
  => /\ currentEl = [kind |-> "empty"]
     /\ forecastEl = [kind |-> "empty"]
     /\ errorEl = "Something went wrong fetching weather."
     /\ chains[event.chain].pc = "done"

C5_Witness ==
  /\ event.op = "weather"
  /\ chains[event.chain].type = "search"
  /\ ~event.res.rejected /\ ~event.res.ok
  /\ lastLocation # null
  /\ errorEl = "Something went wrong fetching weather."

\* C6: a geolocation click that passes the capability guard disables the
\* button with the progress label; every completion of the flow (error
\* callback, weather rendered, weather fetch or render failed) leaves it
\* enabled with the label "Use my location"; the button is disabled only
\* while a geolocation flow is in flight, and, the platform calling back and
\* the weather request being answered, a disabled button is re-enabled.
C6_ButtonSafe ==
  /\ (event.op = "geoClick" /\ event.started # 0) =>
       geoBtn = [disabled |-> TRUE, textContent |-> "Locating..."]
  /\ (event.op = "positionError") => geoBtn = Restored
  /\ (event.op = "weather" /\ chains[event.chain].type = "geo") => geoBtn = Restored
  /\ geoBtn.disabled =>
       \E id \in InFlight : chains[id].type = "geo"
  /\ ~geoBtn.disabled => geoBtn = Restored

C6_GeoButtonRestored ==
  /\ []C6_ButtonSafe
  /\ (geoBtn.disabled ~> (geoBtn = Restored))

C6_Witness ==
  /\ event.op = "weather"
  /\ chains[event.chain].type = "geo"
  /\ chains[event.chain].result = "failed"
  /\ geoBtn = Restored
  /\ errorEl = "Could not fetch weather for your location."

\* C7: a chain whose weather response is renderable overwrites both display
\* areas with that response whatever else is in flight or was started later;
\* so (witness) of two overlapping chains the earlier one can complete last
\* and leave its own result on display instead of the later one's.
C7_CompletionOverwrites ==
  (event.op = "weather" /\ Renderable(event.res))
  => /\ currentEl.kind = "current"
     /\ currentEl.origin = RequestOrigin(LastReq(event.chain))
     /\ forecastEl.kind = "forecast"
     /\ forecastEl.origin = RequestOrigin(LastReq(event.chain))
     /\ chains[event.chain].result = "rendered"

C7_Witness ==
  /\ InFlight = {}
  /\ Len(chains) = 2
  /\ event.op = "weather" /\ event.chain = 1
  /\ chains[1].result = "rendered"
  /\ chains[2].result = "rendered"
  /\ RequestOrigin(LastReq(1)) # RequestOrigin(LastReq(2))
  /\ currentEl.origin = RequestOrigin(LastReq(1))
  /\ forecastEl.origin = RequestOrigin(LastReq(1))

\* C8: a city search issues its geocode request first and its weather
\* request only once the geocode request has been answered with a location,
\* for that location; it never has two requests outstanding, and issues no
\* weather request when geocoding failed or found nothing.
C8_SearchSequential ==
  /\ \A id \in DOMAIN chains :
       chains[id].type = "search" =>
         LET reqs == chains[id].reqs
         IN /\ Cardinality({r \in pending : r.chain = id}) <= 1
            /\ Len(reqs) \in {1, 2}
            /\ reqs[1].kind = "geocode"
            /\ Len(reqs) = 2 =>
                 /\ reqs[2].kind = "weather"
                 /\ reqs[1] \notin pending
                 /\ chains[id].loc # null
                 /\ reqs[2].latitude = chains[id].loc.latitude
                 /\ reqs[2].longitude = chains[id].loc.longitude
            /\ chains[id].pc = "geocode" => reqs[1] \in pending
  /\ (event.op = "geocoded") =>
       LET found == /\ ~Failed(event.res)
                    /\ event.res.json.hasResults
                    /\ Len(event.res.json.results) > 0
       IN IF found
          THEN /\ Kinds(chains[event.chain].reqs) = {"geocode", "weather"}
               /\ chains[event.chain].loc.latitude = event.res.json.results[1].latitude
          ELSE /\ Kinds(chains[event.chain].reqs) = {"geocode"}
               /\ chains[event.chain].pc = "done"

C8_Witness ==
  /\ event.op = "geocoded"
  /\ chains[event.chain].pc = "weather"
  /\ Len(chains[event.chain].reqs) = 2
  /\ chains[event.chain].reqs[2] \in pending
  /\ \E id \in DOMAIN chains :
       chains[id].type = "search" /\ chains[id].result = "failed"
         /\ Len(chains[id].reqs) = 1

\* C9: every action that passes its guard and starts a chain has the error
\* line empty when its first request is out.
C9_ErrorResetOnStart ==
  (event.op \in {"submit", "geoClick", "toggle"} /\ event.started # 0)
  => /\ errorEl = ""
     /\ event.started = Len(chains)
     /\ \E r \in pending : r.chain = event.started

C9_Witness ==
  /\ event.op = "submit" /\ event.started = 2
  /\ chains[1].result = "notfound"
  /\ errorEl = ""

\* C10: a geolocation click without the geolocation capability sets the
\* error line to "Geolocation is not supported by your browser.", issues no
\* request, and leaves the button enabled with its original label and
\* lastLocation unchanged.
C10_GeolocationUnsupported ==
  [][(event'.op = "geoClick" /\ ~navigatorGeolocation) =>
       /\ errorEl' = "Geolocation is not supported by your browser."
       /\ geoBtn' = Restored
       /\ UNCHANGED <<geoBtn, lastLocation, chains, pending, currentEl, forecastEl>>]_vars

C10_Witness ==
  /\ event.op = "geoClick"
  /\ ~navigatorGeolocation
  /\ errorEl = "Geolocation is not supported by your browser."
  /\ lastLocation # null
  /\ currentEl.kind = "current"

\* ------------------------------------------------ the helpers on their own
\* The mapper and the forecast renderer are applied to arguments drawn from
\* bounded sets; the page is otherwise left as loaded.
CodeMargin == 3
MaxDays == 7

Codes == (0 - CodeMargin)..(99 + CodeMargin)

\* A response body whose daily sequences all have n entries, each entry
\* different from its neighbours; precipitation present or absent.
DailyBody(n, useF, withPrecip) ==
  [latitude |-> Paris.latitude, longitude |-> Paris.longitude,
   temperature_unit |-> unitParam(useF),
   current_weather |-> undefined,
   daily |->
     [time |-> [i \in 1..n |-> i - 1],
      temperature_2m_max |-> [i \in 1..n |-> 200 + 13 * i],
      temperature_2m_min |-> [i \in 1..n |-> 50 - 7 * i],
      weathercode |-> [i \in 1..n |-> IF i % 3 = 0 THEN 61
                                       ELSE IF i % 3 = 1 THEN 0 ELSE 95],
      precipitation_probability_max |->
        IF withPrecip THEN [i \in 1..n |-> 10 * i] ELSE <<>>]]

page == <<navigatorGeolocation, unitToggle, lastLocation, currentEl, errorEl,
          geoBtn, chains, pending, event>>

CallWeatherCodeToText(code) ==
  /\ call' = [fn |-> "weatherCodeToText", code |-> code,
              result |-> weatherCodeToText(code)]
  /\ UNCHANGED <<page, forecastEl>>

\* makeIconImg for the code, with isDay and with its opposite.
CallMakeIconImg(code, isDay) ==
  /\ call' = [fn |-> "makeIconImg", code |-> code, isDay |-> isDay,
              result |-> makeIconImg(code, isDay),
              other |-> makeIconImg(code, ~isDay)]
  /\ UNCHANGED <<page, forecastEl>>

CallRenderForecast(n, useF, withPrecip) ==
  LET data == DailyBody(n, useF, withPrecip)
      r == renderForecast(data, useF)
  IN /\ forecastEl' = r.value
     /\ call' = [fn |-> "renderForecast", data |-> data, useF |-> useF,
                 thrown |-> r.thrown]
     /\ UNCHANGED page

HelperNext ==
  \/ \E code \in Codes : CallWeatherCodeToText(code)
  \/ \E code \in Codes : \E isDay \in BOOLEAN : CallMakeIconImg(code, isDay)
  \/ \E n \in 0..MaxDays : \E useF \in BOOLEAN : \E withPrecip \in BOOLEAN :
       CallRenderForecast(n, useF, withPrecip)

HelperSpec == Init /\ [][HelperNext]_vars

DocumentedCodes ==
  {0, 1, 2, 3, 45, 48, 51, 53, 55, 56, 57, 61, 63, 65, 66, 67,
   71, 73, 75, 77, 80, 81, 82, 85, 86, 95, 96, 99}

\* C11: weatherCodeToText gives a description other than the placeholder for
\* every documented code and exactly the placeholder for every other integer.
C11_WeatherCodeToTextTotal ==
  (call.fn = "weatherCodeToText") =>
    IF call.code \in DocumentedCodes
    THEN call.result # "-"
    ELSE call.result = "-"

C11_Witness ==
  /\ call.fn = "weatherCodeToText"
  /\ call.code = 57
  /\ call.result = "Freezing drizzle (dense)"

\* C12: makeIconImg gives the night glyph exactly for code 0 with isDay
\* false, and for every other code the same glyph for both values of isDay.
C12_NightGlyphOnlyForClearNight ==
  (call.fn = "makeIconImg") =>
    /\ (call.result = "moon") <=> (call.code = 0 /\ ~call.isDay)
    /\ (call.code # 0) => (call.result = call.other)

C12_Witness ==
  /\ call.fn = "makeIconImg"
  /\ call.code = 0 /\ ~call.isDay
  /\ call.result = "moon" /\ call.other = "sun"

\* C13: renderForecast renders min(5, n) day-cards for n daily entries, the
\* k-th card (from 0) from index k of every daily sequence, in index order.
C13_FiveCardsInIndexOrder ==
  (call.fn = "renderForecast") =>
    LET d == call.data.daily
        n == Len(d.time)
        cards == forecastEl.cards
    IN /\ ~call.thrown
       /\ Len(cards) = (IF n < 5 THEN n ELSE 5)
       /\ \A k \in 1..Len(cards) :
            /\ cards[k].date = [def |-> TRUE, v |-> d.time[k]]
            /\ cards[k].hi = [def |-> TRUE, v |-> (d.temperature_2m_max[k] + 5) \div 10]
            /\ cards[k].lo = [def |-> TRUE, v |-> (d.temperature_2m_min[k] + 5) \div 10]
            /\ cards[k].desc = weatherCodeMap[d.weathercode[k]]
            /\ cards[k].precip =
                 (IF d.precipitation_probability_max = <<>> THEN undefined
                  ELSE [def |-> TRUE, v |-> d.precipitation_probability_max[k]])

C13_Witness ==
  /\ call.fn = "renderForecast"
  /\ Len(call.data.daily.time) = 7
  /\ Len(forecastEl.cards) = 5
  /\ forecastEl.cards[5].date.v = 4

\* C17: for every documented code makeIconImg gives a family glyph, never
\* the fallback glyph.
C17_DocumentedCodesHaveFamilyGlyph ==
  (call.fn = "makeIconImg" /\ call.code \in DocumentedCodes) =>
    call.result # "thermometer"

\* C15: in the geolocation flow, a failed weather request ends with both
\* areas cleared and a fetch-failure message on the error line, as in city
\* search.
C15_GeoWeatherFailureClears ==
  (/\ event.op = "weather"
   /\ chains[event.chain].type = "geo"
   /\ Failed(event.res))
  => /\ currentEl = [kind |-> "empty"]
     /\ forecastEl = [kind |-> "empty"]
     /\ errorEl \in {"Something went wrong fetching weather.",
                     "Could not fetch weather for your location."}

\* C16: whenever the error line shows a message, neither the current area
\* nor the forecast area shows rendered weather.
C16_RenderedErroredExclusive ==
  (errorEl # "") =>
    /\ currentEl.kind # "current"
    /\ forecastEl.kind # "forecast"

SuffixOf(temperature_unit) ==
  IF temperature_unit = "fahrenheit" THEN "degF" ELSE "degC"

\* C18: the suffix of a rendered current panel and of every rendered day-card
\* is that of the temperature unit sent in the weather request whose response
\* is rendered, whatever the toggle has become meanwhile.
C18_SuffixMatchesRequest ==
  /\ (currentEl.kind = "current") =>
       currentEl.unit = SuffixOf(currentEl.origin.temperature_unit)
  /\ (forecastEl.kind = "forecast") =>
       \A k \in DOMAIN forecastEl.cards :
         forecastEl.cards[k].unit = SuffixOf(forecastEl.origin.temperature_unit)

C18_Witness ==
  /\ event.op = "weather"
  /\ chains[event.chain].type = "search"
  /\ chains[event.chain].result = "rendered"
  /\ unitToggle # chains[event.chain].useF
  /\ currentEl.unit = "degC" /\ unitToggle
  /\ Len(forecastEl.cards) = 5

\* C19: with no handler suspended at a geocode, weather or position call,
\* the current area shows no loading placeholder.
C19_NoPlaceholderAtRest ==
  (InFlight = {} /\ pending = {}) => currentEl.kind \in {"empty", "current"}

C19_Witness ==
  /\ InFlight = {}
  /\ \E i \in DOMAIN chains : chains[i].type = "search" /\ chains[i].result = "rendered"
  /\ \E i \in DOMAIN chains : chains[i].type = "toggle" /\ chains[i].result = "failed"
  /\ currentEl.kind = "empty"

\* C20: lastLocation is written by the step in which a search's geocode
\* resolves a location (the step that issues its weather request) and by the
\* step in which a geolocation flow's weather request succeeds; every other
\* step leaves it unchanged, and it never goes back to null.
C20_Step ==
  /\ IF event'.op = "geocoded" /\ chains'[event'.chain].pc = "weather"
     THEN LET reqs == chains'[event'.chain].reqs
          IN /\ lastLocation' = chains'[event'.chain].loc
             /\ lastLocation'.latitude = reqs[Len(reqs)].latitude
             /\ reqs[Len(reqs)] \in pending' \ pending
     ELSE IF /\ event'.op = "weather"
             /\ chains[event'.chain].type = "geo"
             /\ ~Failed(event'.res)
     THEN lastLocation' = chains[event'.chain].loc
     ELSE lastLocation' = lastLocation
  /\ (lastLocation # null) => (lastLocation' # null)

C20_LastLocationWrites == [][C20_Step]_vars

C20_Witness ==
  /\ event.op = "weather"
  /\ chains[event.chain].type = "geo"
  /\ ~Failed(event.res)
  /\ event.res.json.current_weather = undefined
  /\ lastLocation.name = "Your location"
  /\ \E i \in DOMAIN chains : chains[i].type = "search" /\ chains[i].loc # null

\* ------------------------------------------- a session after a first search
\* The page once a search for "P" has been answered and rendered in Celsius
\* and nothing is in flight; the handler runs that led there are over.
SearchedParis ==
  LET res == [rejected |-> FALSE, ok |-> TRUE,
              json |-> [hasResults |-> TRUE, results |-> GeoDB(<<"P">>)]]
      loc == geocodeCity(res).value
      data == WeatherJson(WeatherRequest(1, loc.latitude, loc.longitude,
                                         unitParam(FALSE)), "full")
  IN [lastLocation |-> loc,
      currentEl |-> renderCurrent(loc, data, FALSE).value,
      forecastEl |-> renderForecast(data, FALSE).value]

SearchedParisPage ==
  /\ unitToggle = FALSE
  /\ lastLocation = SearchedParis.lastLocation
  /\ currentEl = SearchedParis.currentEl
  /\ forecastEl = SearchedParis.forecastEl
  /\ errorEl = ""
  /\ geoBtn = [disabled |-> FALSE, textContent |-> LabelUseMyLocation]
  /\ pending = {}

SessionInit ==
  /\ navigatorGeolocation \in BOOLEAN
  /\ SearchedParisPage
  /\ chains = <<>>
  /\ event = [op |-> "load"]
  /\ call = [fn |-> "none"]

SessionSpec == SessionInit /\ [][Next]_vars

\* The name of the place at a latitude: a city of the geocoder, or the
\* synthetic location of the geolocation flow.
NameAt(latitude) ==
  IF latitude = 4886 THEN "Paris"
  ELSE IF latitude = 5991 THEN "Oslo"
  ELSE "Your location"

\* C14: whenever the current panel is rendered, the location name it shows
\* is that of the location whose coordinates were sent in the weather
\* request that produced the rendered data.
C14_NameMatchesCoordinates ==
  (currentEl.kind = "current") =>
    currentEl.heading[1] = NameAt(currentEl.origin.latitude)

====
